---------------------------- MODULE Spec2Model ----------------------------
(* Model of notebooks/rapids-mnist-dt.ipynb: the notebook's cells, run top   *)
(* to bottom in one kernel, and the library operations they call.            *)
(* Spec      : one run of the notebook over a bounded dataset.               *)
(* SpecEval  : the evaluation and inspection operations applied to bounded   *)
(*             pairs of label sequences (equal and unequal lengths).         *)
EXTENDS Integers, Sequences, FiniteSets, TLC

VARIABLES pc, defined, X_train, y_train, X_test, y_test,
          cu_X_train, cu_y_train, clf_rf, pred_rf, cm,
          dtrain, dtest, params, clf_xgb, pred_xgb,
          out, ran, failedAt

vars == <<pc, defined, X_train, y_train, X_test, y_test,
          cu_X_train, cu_y_train, clf_rf, pred_rf, cm,
          dtrain, dtest, params, clf_xgb, pred_xgb,
          out, ran, failedAt>>

-----------------------------------------------------------------------------
(* Bounds of the model *)
MaxTrain == 1
MaxTest == 2
EvalLen == 3

(* Labels the bounded datasets and predictions are drawn from *)
LabelSample == {0, 2, 5}
EvalLabels == {0, 1, 5}

(* Program constants *)
NumLabels == 10
MaxToShow == 10
n_estimators == 10
max_depth == 12
num_class == 10
num_round == 100
verbosity == 2
Int32Max == 2147483647

None == "None"

-----------------------------------------------------------------------------
(* Arrays: a dtype and the data *)
Array(dt, d) == [dtype |-> dt, data |-> d]
NoArray == Array("undef", << >>)

DigitChars == <<"0", "1", "2", "3", "4", "5", "6", "7", "8", "9">>

(* the stored (string) representation of a label *)
StrOf(n) == DigitChars[n + 1]

(* int('5') = 5 *)
ParseInt(s) == CHOOSE n \in 0..9 : DigitChars[n + 1] = s

(* two's complement 32-bit value of an integer *)
Wrap32(n) ==
    IF n > Int32Max THEN (n - Int32Max) - Int32Max - 2
    ELSE IF n < (0 - Int32Max) - 1 THEN (n + Int32Max) + Int32Max + 2
    ELSE n

(* a mis-normalisation that also re-bases the labels: not idempotent *)
astype_int32_rebased(a) ==
    Array("int32",
          [i \in 1..Len(a.data) |->
              IF a.dtype = "str" THEN Wrap32(ParseInt(a.data[i]) - 1)
              ELSE Wrap32(a.data[i] - 1)])

(* ndarray.astype(np.int32) *)
astype_int32(a) ==
    Array("int32",
          [i \in 1..Len(a.data) |->
              IF a.dtype = "str" THEN Wrap32(ParseInt(a.data[i]))
              ELSE Wrap32(a.data[i])])

(* ndarray.astype(np.float32) of a feature matrix: rows keep their order *)
astype_float32(a) == Array("float32", a.data)

SeqsOf(S, lo, hi) == UNION {[1..n -> S] : n \in lo..hi}

ValuesOf(s) == {s[i] : i \in 1..Len(s)}

-----------------------------------------------------------------------------
(* The cells, in the order of the notebook file *)
Order == <<"Load", "NormalizeTrain", "NormalizeTest", "TabularAdapter",
           "ForestFit", "ForestPredict",
           "ShowFailuresAll", "ShowFailuresTrue5", "ShowFailuresPred0",
           "ShowFailuresTrue0Pred2",
           "ConfusionMatrix", "ClassificationReport",
           "BuildDMatrix", "SetParams", "BoostedTrain", "BoostedPredict">>

Stages == ValuesOf(Order)

IndexOf(s) == CHOOSE i \in 1..Len(Order) : Order[i] = s

(* a notebook whose inference cell was moved above the training cell *)
NextStageMisordered(s) ==
    CASE s = "TabularAdapter" -> "ForestPredict"
      [] s = "ForestPredict" -> "ForestFit"
      [] s = "ForestFit" -> "ShowFailuresAll"
      [] OTHER -> IF IndexOf(s) < Len(Order) THEN Order[IndexOf(s) + 1]
                  ELSE "done"

(* the cell executed after cell s *)
NextStage(s) ==
    IF IndexOf(s) < Len(Order) THEN Order[IndexOf(s) + 1] ELSE "done"

(* an exception handler that swallows the error and goes on *)
OnErrorContinue(s) == NextStage(s)

(* an exception raised in a cell is not caught: the run stops *)
OnError(s) == "aborted"

-----------------------------------------------------------------------------
(* Results of a library call: a value, or the exception it raised *)
Ok(v) == [ok |-> TRUE, value |-> v, error |-> "none"]
Err(kind) == [ok |-> FALSE, value |-> << >>, error |-> kind]

(* range(1, 10): a label list that misses class 0 *)
labels_from_one == [k \in 1..(NumLabels - 1) |-> k]

(* labels = range(10) *)
labels == [k \in 1..NumLabels |-> k - 1]

Min(a, b) == IF a < b THEN a ELSE b

RECURSIVE SumTo(_, _)
(* f[0] + ... + f[n] *)
SumTo(f, n) == IF n < 0 THEN 0 ELSE SumTo(f, n - 1) + f[n]

RECURSIVE count_matches(_, _, _)
(* number of positions 1..n where the two sequences agree *)
count_matches(y_true, y_pred, n) ==
    IF n = 0 THEN 0
    ELSE count_matches(y_true, y_pred, n - 1)
         + (IF y_true[n] = y_pred[n] THEN 1 ELSE 0)

(* an accuracy whose counting loop stops one sample early *)
accuracy_score_short(y_true, y_pred) ==
    IF Len(y_true) # Len(y_pred) THEN Err("LengthMismatch")
    ELSE Ok([num |-> count_matches(y_true, y_pred, Len(y_true) - 1),
             den |-> Len(y_true)])

(* sklearn.metrics.accuracy_score: the fraction num/den of matching labels *)
accuracy_score(y_true, y_pred) ==
    IF Len(y_true) # Len(y_pred) THEN Err("LengthMismatch")
    ELSE Ok([num |-> count_matches(y_true, y_pred, Len(y_true)),
             den |-> Len(y_true)])

(* 0-based position of label v in the label list, -1 when absent *)
label_to_ind(lbls, v) ==
    IF \E k \in 1..Len(lbls) : lbls[k] = v
    THEN (CHOOSE k \in 1..Len(lbls) : lbls[k] = v) - 1
    ELSE 0 - 1

zeros(n) == [r \in 0..(n - 1) |-> [c \in 0..(n - 1) |-> 0]]

RECURSIVE cm_count(_, _, _, _)
(* the count table after the first n samples; a sample whose true or        *)
(* predicted label is not in the label list is dropped                      *)
cm_count(y_true, y_pred, lbls, n) ==
    IF n = 0 THEN zeros(Len(lbls))
    ELSE LET m == cm_count(y_true, y_pred, lbls, n - 1)
             r == label_to_ind(lbls, y_true[n])
             c == label_to_ind(lbls, y_pred[n])
         IN  IF r >= 0 /\ c >= 0 THEN [m EXCEPT ![r][c] = @ + 1] ELSE m

(* a confusion matrix indexed (predicted, true): the transposed table *)
confusion_matrix_transposed(y_true, y_pred, lbls) ==
    IF Len(y_true) # Len(y_pred) THEN Err("LengthMismatch")
    ELSE IF \A k \in 1..Len(lbls) : lbls[k] \notin ValuesOf(y_true)
    THEN Err("ValueError")
    ELSE Ok(cm_count(y_pred, y_true, lbls, Len(y_true)))

(* a confusion matrix that pairs the labels up to the shorter input *)
confusion_matrix_zip(y_true, y_pred, lbls) ==
    IF \A k \in 1..Len(lbls) : lbls[k] \notin ValuesOf(y_true)
    THEN Err("ValueError")
    ELSE Ok(cm_count(y_true, y_pred, lbls, Min(Len(y_true), Len(y_pred))))

(* sklearn.metrics.confusion_matrix(y_true, y_pred, labels=lbls) *)
confusion_matrix(y_true, y_pred, lbls) ==
    IF Len(y_true) # Len(y_pred) THEN Err("LengthMismatch")
    ELSE IF \A k \in 1..Len(lbls) : lbls[k] \notin ValuesOf(y_true)
    THEN Err("ValueError")
    ELSE Ok(cm_count(y_true, y_pred, lbls, Len(y_true)))

(* cm.sum(axis=1)[r] and cm.sum(axis=0)[c] *)
row_sum(m, r) == SumTo(m[r], Cardinality(DOMAIN m) - 1)
col_sum(m, c) == SumTo([r \in DOMAIN m |-> m[r][c]], Cardinality(DOMAIN m) - 1)

(* numpy division a/b of counts: nan (with a warning) when b = 0 *)
Ratio(a, b) == [num |-> a, den |-> b, nan |-> (b = 0)]

(* per-class values divided by the column sums instead of the row sums *)
per_class_accuracy_by_column(m) ==
    [k \in 1..Cardinality(DOMAIN m) |->
        [class |-> k - 1, value |-> Ratio(m[k - 1][k - 1], col_sum(m, k - 1))]]

(* for i,j in enumerate(cm.diagonal()/cm.sum(axis=1)): the printed lines *)
per_class_accuracy(m) ==
    [k \in 1..Cardinality(DOMAIN m) |->
        [class |-> k - 1, value |-> Ratio(m[k - 1][k - 1], row_sum(m, k - 1))]]

(* sklearn.metrics.classification_report: per class precision, recall, support *)
classification_report(y_true, y_pred, lbls) ==
    IF Len(y_true) # Len(y_pred) THEN Err("LengthMismatch")
    ELSE LET m == cm_count(y_true, y_pred, lbls, Len(y_true))
         IN  Ok([k \in 1..Len(lbls) |->
                   [class |-> lbls[k],
                    precision |-> Ratio(m[k - 1][k - 1], col_sum(m, k - 1)),
                    recall |-> Ratio(m[k - 1][k - 1], row_sum(m, k - 1)),
                    support |-> row_sum(m, k - 1)]])

-----------------------------------------------------------------------------
(* pml_utils *)

(* an optional class filter *)
Unset == [set |-> FALSE, class |-> 0]
Class(c) == [set |-> TRUE, class |-> c]

(* get_mnist: four aligned containers; labels in their stored form *)
get_mnist(ytr, yte) ==
    [X_train |-> Array("float64", [i \in 1..Len(ytr) |-> i]),
     y_train |-> Array("str", [i \in 1..Len(ytr) |-> StrOf(ytr[i])]),
     X_test |-> Array("float64", [i \in 1..Len(yte) |-> i]),
     y_test |-> Array("str", [i \in 1..Len(yte) |-> StrOf(yte[i])])]

(* sample n (1-based) is a failure passing both filters *)
is_shown(predictions, true, trueclass, predictedclass, n) ==
    /\ predictions[n] # true[n]
    /\ (~trueclass.set \/ true[n] = trueclass.class)
    /\ (~predictedclass.set \/ predictions[n] = predictedclass.class)

RECURSIVE select_failures(_, _, _, _, _)
(* the 0-based indices selected among the first n samples, in order *)
select_failures(predictions, true, trueclass, predictedclass, n) ==
    IF n = 0 THEN << >>
    ELSE LET s == select_failures(predictions, true, trueclass,
                                  predictedclass, n - 1)
         IN  IF is_shown(predictions, true, trueclass, predictedclass, n)
             THEN Append(s, n - 1) ELSE s

(* what a call of show_failures does: the selection, the rendered images    *)
(* with their captions, the value returned and the arguments after the call *)
InspectorCall(predictions, true, features, selected) ==
    [selected |-> selected,
     rendered |-> [k \in 1..Min(Len(selected), MaxToShow) |->
                     [image |-> features[selected[k] + 1],
                      true |-> true[selected[k] + 1],
                      predicted |-> predictions[selected[k] + 1]]],
     ret |-> None,
     predictions |-> predictions,
     y_test |-> true,
     X_test |-> features]

(* an inspector whose predicted-class filter is ignored once a true class is given *)
show_failures_one_filter(predictions, true, features, trueclass, predictedclass) ==
    InspectorCall(predictions, true, features,
        select_failures(predictions, true, trueclass,
                        IF trueclass.set THEN Unset ELSE predictedclass,
                        Len(features)))

(* an inspector that overwrites its label argument with the predictions it shows *)
show_failures_in_place(predictions, true, features, trueclass, predictedclass) ==
    LET c == InspectorCall(predictions, true, features,
                 select_failures(predictions, true, trueclass, predictedclass,
                                 Len(features)))
    IN  [c EXCEPT !.y_test = [i \in 1..Len(true) |->
                                IF (i - 1) \in ValuesOf(c.selected)
                                THEN predictions[i] ELSE true[i]]]

(* show_failures(predictions, y_test, X_test, trueclass=None, predictedclass=None) *)
show_failures(predictions, true, features, trueclass, predictedclass) ==
    InspectorCall(predictions, true, features,
        select_failures(predictions, true, trueclass, predictedclass,
                        Len(features)))

-----------------------------------------------------------------------------
(* The kernel: its variables before any cell has run *)
NoModel == [fitted |-> FALSE, classes |-> {}, n_estimators |-> 0, max_depth |-> 0]
NoDMatrix == [data |-> << >>, label |-> << >>]
NoParams == [verbosity |-> 0, tree_method |-> "", objective |-> "", num_class |-> 0]
NoBooster == [trained |-> FALSE, params |-> NoParams, rounds |-> 0, classes |-> {}]

(* one printed or rendered output of a cell, with the arguments it was computed from *)
Output(kind, stage, yt, yp, result) ==
    [kind |-> kind, stage |-> stage, y_true |-> yt, y_pred |-> yp, result |-> result]

(* the kernel variables a cell reads *)
Needs(s) ==
    CASE s = "Load" -> {}
      [] s = "NormalizeTrain" -> {"y_train"}
      [] s = "NormalizeTest" -> {"X_train", "y_train", "X_test", "y_test"}
      [] s = "TabularAdapter" -> {"X_train", "y_train"}
      [] s = "ForestFit" -> {"cu_X_train", "cu_y_train"}
      [] s = "ForestPredict" -> {"clf_rf", "X_test", "y_test"}
      [] s \in {"ShowFailuresAll", "ShowFailuresTrue5", "ShowFailuresPred0",
                "ShowFailuresTrue0Pred2"} -> {"pred_rf", "y_test", "X_test"}
      [] s = "ConfusionMatrix" -> {"y_test", "pred_rf"}
      [] s = "ClassificationReport" -> {"y_test", "pred_rf", "labels"}
      [] s = "BuildDMatrix" -> {"X_train", "y_train", "X_test", "y_test"}
      [] s = "SetParams" -> {}
      [] s = "BoostedTrain" -> {"params", "dtrain"}
      [] s = "BoostedPredict" -> {"clf_xgb", "dtest", "y_test"}

(* the kernel variables a cell binds *)
Binds(s) ==
    CASE s = "Load" -> {"X_train", "y_train", "X_test", "y_test"}
      [] s = "NormalizeTrain" -> {"y_train"}
      [] s = "NormalizeTest" -> {"y_test"}
      [] s = "TabularAdapter" -> {"cu_X_train", "cu_y_train"}
      [] s = "ForestFit" -> {"clf_rf"}
      [] s = "ForestPredict" -> {"pred_rf"}
      [] s = "ConfusionMatrix" -> {"labels", "cm"}
      [] s = "BuildDMatrix" -> {"dtrain", "dtest"}
      [] s = "SetParams" -> {"params"}
      [] s = "BoostedTrain" -> {"clf_xgb"}
      [] s = "BoostedPredict" -> {"pred_xgb"}
      [] OTHER -> {}

dataVars == <<X_train, y_train, X_test, y_test>>
forestVars == <<cu_X_train, cu_y_train, clf_rf, pred_rf, cm>>
boostVars == <<dtrain, dtest, params, clf_xgb, pred_xgb>>

Init ==
    /\ pc = "Load"
    /\ defined = {}
    /\ X_train = NoArray /\ y_train = NoArray
    /\ X_test = NoArray /\ y_test = NoArray
    /\ cu_X_train = NoArray /\ cu_y_train = NoArray
    /\ clf_rf = NoModel /\ pred_rf = NoArray /\ cm = << >>
    /\ dtrain = NoDMatrix /\ dtest = NoDMatrix
    /\ params = NoParams /\ clf_xgb = NoBooster /\ pred_xgb = NoArray
    /\ out = << >> /\ ran = << >> /\ failedAt = "none"

(* cell s runs to its end: a name it reads must be bound (else NameError) *)
Completes(s) ==
    /\ pc = s
    /\ Needs(s) \subseteq defined
    /\ pc' = NextStage(s)
    /\ defined' = defined \cup Binds(s)
    /\ ran' = Append(ran, s)
    /\ failedAt' = failedAt

(* X_train, y_train, X_test, y_test = get_mnist('MNIST') *)
Load ==
    /\ Completes("Load")
    /\ \E ytr \in SeqsOf(LabelSample, 1, MaxTrain),
          yte \in SeqsOf(LabelSample, 1, MaxTest) :
          LET d == get_mnist(ytr, yte)
          IN  /\ X_train' = d.X_train /\ y_train' = d.y_train
              /\ X_test' = d.X_test /\ y_test' = d.y_test
    /\ UNCHANGED <<forestVars, boostVars, out>>

(* y_train = y_train.astype(np.int32) *)
NormalizeTrain ==
    /\ Completes("NormalizeTrain")
    /\ y_train' = astype_int32(y_train)
    /\ UNCHANGED <<X_train, X_test, y_test, forestVars, boostVars, out>>

(* y_test = y_test.astype(np.int32), then the shapes are printed *)
NormalizeTest ==
    /\ Completes("NormalizeTest")
    /\ y_test' = astype_int32(y_test)
    /\ out' = Append(out, Output("shapes", "NormalizeTest", << >>, << >>,
                  <<Len(X_train.data), Len(y_train.data),
                    Len(X_test.data), Len(y_test'.data)>>))
    /\ UNCHANGED <<X_train, y_train, X_test, forestVars, boostVars>>

(* cu_X_train = cudf.DataFrame.from_pandas(pd.DataFrame(X_train.astype(np.float32))) *)
(* cu_y_train = cudf.Series(y_train.astype(np.int32))                                *)
TabularAdapter ==
    /\ Completes("TabularAdapter")
    /\ cu_X_train' = astype_float32(X_train)
    /\ cu_y_train' = astype_int32(y_train)
    /\ out' = Append(out, Output("shapes", "TabularAdapter", << >>, << >>,
                  <<Len(cu_X_train'.data), Len(cu_y_train'.data)>>))
    /\ UNCHANGED <<dataVars, clf_rf, pred_rf, cm, boostVars>>

(* clf_rf = RandomForestClassifier(...); clf_rf.fit(cu_X_train, cu_y_train) *)
ForestFit ==
    /\ Completes("ForestFit")
    /\ Len(cu_X_train.data) = Len(cu_y_train.data)
    /\ clf_rf' = [fitted |-> TRUE, classes |-> ValuesOf(cu_y_train.data),
                  n_estimators |-> n_estimators, max_depth |-> max_depth]
    /\ UNCHANGED <<dataVars, cu_X_train, cu_y_train, pred_rf, cm, boostVars, out>>

(* pred_rf = clf_rf.predict(X_test, predict_model='CPU'): one trained class *)
(* per test row; then the accuracy is printed                              *)
ForestPredict ==
    /\ Completes("ForestPredict")
    /\ clf_rf.fitted
    /\ \E p \in [1..Len(X_test.data) -> clf_rf.classes] :
          LET a == accuracy_score(y_test.data, p)
          IN  /\ a.ok
              /\ pred_rf' = Array("int32", p)
              /\ out' = Append(out, Output("accuracy", "ForestPredict",
                                           y_test.data, p, a))
    /\ UNCHANGED <<dataVars, cu_X_train, cu_y_train, clf_rf, cm, boostVars>>

(* a cell show_failures(pred_rf, y_test, X_test, ...): an expression statement *)
InspectorCell(s, trueclass, predictedclass) ==
    /\ Completes(s)
    /\ LET c == show_failures(pred_rf.data, y_test.data, X_test.data,
                              trueclass, predictedclass)
       IN  /\ pred_rf' = Array(pred_rf.dtype, c.predictions)
           /\ y_test' = Array(y_test.dtype, c.y_test)
           /\ X_test' = Array(X_test.dtype, c.X_test)
           /\ out' = Append(out, Output("failures", s, y_test.data, pred_rf.data,
                                        [selected |-> c.selected,
                                         rendered |-> c.rendered,
                                         ret |-> c.ret]))
    /\ UNCHANGED <<X_train, y_train, cu_X_train, cu_y_train, clf_rf, cm, boostVars>>

ShowFailuresAll == InspectorCell("ShowFailuresAll", Unset, Unset)
ShowFailuresTrue5 == InspectorCell("ShowFailuresTrue5", Class(5), Unset)
ShowFailuresPred0 == InspectorCell("ShowFailuresPred0", Unset, Class(0))
ShowFailuresTrue0Pred2 == InspectorCell("ShowFailuresTrue0Pred2", Class(0), Class(2))

(* labels = range(10); cm = confusion_matrix(y_test, pred_rf, labels=labels); *)
(* the matrix and the accuracy of each class are printed                      *)
ConfusionMatrix ==
    /\ Completes("ConfusionMatrix")
    /\ LET r == confusion_matrix(y_test.data, pred_rf.data, labels)
       IN  /\ r.ok
           /\ cm' = r.value
           /\ out' = out \o
                <<Output("confusion_matrix", "ConfusionMatrix",
                         y_test.data, pred_rf.data, r),
                  Output("per_class", "ConfusionMatrix",
                         y_test.data, pred_rf.data, per_class_accuracy(r.value))>>
    /\ UNCHANGED <<dataVars, cu_X_train, cu_y_train, clf_rf, pred_rf, boostVars>>

(* print(classification_report(y_test, pred_rf, labels=labels)) *)
ClassificationReport ==
    /\ Completes("ClassificationReport")
    /\ LET r == classification_report(y_test.data, pred_rf.data, labels)
       IN  /\ r.ok
           /\ out' = Append(out, Output("report", "ClassificationReport",
                                        y_test.data, pred_rf.data, r))
    /\ UNCHANGED <<dataVars, forestVars, boostVars>>

(* dtrain = xgb.DMatrix(X_train, label=y_train); dtest = xgb.DMatrix(X_test, label=y_test) *)
BuildDMatrix ==
    /\ Completes("BuildDMatrix")
    /\ Len(X_train.data) = Len(y_train.data)
    /\ Len(X_test.data) = Len(y_test.data)
    /\ dtrain' = [data |-> X_train.data, label |-> y_train.data]
    /\ dtest' = [data |-> X_test.data, label |-> y_test.data]
    /\ UNCHANGED <<dataVars, forestVars, params, clf_xgb, pred_xgb, out>>

(* params = {}; three params.update(...); print(params) *)
SetParams ==
    /\ Completes("SetParams")
    /\ params' = [verbosity |-> verbosity, tree_method |-> "gpu_hist",
                  objective |-> "multi:softmax", num_class |-> num_class]
    /\ out' = Append(out, Output("params", "SetParams", << >>, << >>, params'))
    /\ UNCHANGED <<dataVars, forestVars, dtrain, dtest, clf_xgb, pred_xgb>>

(* clf_xgb = xgb.train(params, dtrain, num_round): labels must be below num_class *)
BoostedTrain ==
    /\ Completes("BoostedTrain")
    /\ \A i \in 1..Len(dtrain.label) : dtrain.label[i] \in 0..(params.num_class - 1)
    /\ clf_xgb' = [trained |-> TRUE, params |-> params, rounds |-> num_round,
                   classes |-> 0..(params.num_class - 1)]
    /\ UNCHANGED <<dataVars, forestVars, dtrain, dtest, params, pred_xgb, out>>

(* pred_xgb = clf_xgb.predict(dtest): one class per test row; the accuracy is printed *)
BoostedPredict ==
    /\ Completes("BoostedPredict")
    /\ clf_xgb.trained
    /\ \E p \in [1..Len(dtest.data) -> clf_xgb.classes \cap LabelSample] :
          LET a == accuracy_score(y_test.data, p)
          IN  /\ a.ok
              /\ pred_xgb' = Array("float32", p)
              /\ out' = Append(out, Output("accuracy", "BoostedPredict",
                                           y_test.data, p, a))
    /\ UNCHANGED <<dataVars, forestVars, dtrain, dtest, params, clf_xgb>>

(* a statement of the current cell raises: nothing the cell was to bind or *)
(* print is produced                                                       *)
StageFails ==
    /\ pc \in Stages
    /\ pc' = OnError(pc)
    /\ failedAt' = pc
    /\ UNCHANGED <<defined, dataVars, forestVars, boostVars, out, ran>>

Next ==
    \/ Load \/ NormalizeTrain \/ NormalizeTest \/ TabularAdapter
    \/ ForestFit \/ ForestPredict
    \/ ShowFailuresAll \/ ShowFailuresTrue5 \/ ShowFailuresPred0
    \/ ShowFailuresTrue0Pred2
    \/ ConfusionMatrix \/ ClassificationReport
    \/ BuildDMatrix \/ SetParams \/ BoostedTrain \/ BoostedPredict
    \/ StageFails

Spec == Init /\ [][Next]_vars

-----------------------------------------------------------------------------
(* The Evaluator and the Failure Inspector applied to arbitrary label        *)
(* sequences: y_test holds the true labels, pred_rf the predicted ones, and  *)
(* out the result of the one call made                                       *)
Filters == {Unset} \cup {Class(c) : c \in 0..(NumLabels - 1)}

(* the worked example: one sample of class 1 is taken for class 0 *)
ToyTrue == <<0, 1, 1, 0>>
ToyPred == <<0, 1, 0, 0>>

(* every pair of bounded label sequences, and the worked example *)
EvalInputs ==
    (SeqsOf(EvalLabels, 1, EvalLen) \X SeqsOf(EvalLabels, 1, EvalLen))
       \cup {<<ToyTrue, ToyPred>>}

InitEval ==
    /\ pc = "Evaluate"
    /\ defined = {"X_test", "y_test", "pred_rf"}
    /\ \E in \in EvalInputs :
          /\ y_test = Array("int32", in[1])
          /\ pred_rf = Array("int32", in[2])
          /\ X_test = Array("float64", [i \in 1..Len(in[1]) |-> i])
    /\ X_train = NoArray /\ y_train = NoArray
    /\ cu_X_train = NoArray /\ cu_y_train = NoArray
    /\ clf_rf = NoModel /\ cm = << >>
    /\ dtrain = NoDMatrix /\ dtest = NoDMatrix
    /\ params = NoParams /\ clf_xgb = NoBooster /\ pred_xgb = NoArray
    /\ out = << >> /\ ran = << >> /\ failedAt = "none"

(* the call returns or raises; either way the result is recorded *)
Called(kind, result) ==
    /\ pc = "Evaluate"
    /\ pc' = "evaluated"
    /\ out' = <<Output(kind, "Evaluate", y_test.data, pred_rf.data, result)>>
    /\ ran' = <<kind>>
    /\ failedAt' = IF result.ok THEN "none" ELSE kind
    /\ UNCHANGED <<defined, X_train, y_train, cu_X_train, cu_y_train, clf_rf,
                   boostVars>>

(* accuracy_score(y_test, pred_rf) *)
EvalAccuracy ==
    /\ Called("accuracy", accuracy_score(y_test.data, pred_rf.data))
    /\ UNCHANGED <<X_test, y_test, pred_rf, cm>>

(* cm = confusion_matrix(y_test, pred_rf, labels=labels) *)
EvalConfusionMatrix ==
    LET r == confusion_matrix(y_test.data, pred_rf.data, labels)
    IN  /\ Called("confusion_matrix", r)
        /\ cm' = IF r.ok THEN r.value ELSE cm
        /\ UNCHANGED <<X_test, y_test, pred_rf>>

(* classification_report(y_test, pred_rf, labels=labels) *)
EvalReport ==
    /\ Called("report", classification_report(y_test.data, pred_rf.data, labels))
    /\ UNCHANGED <<X_test, y_test, pred_rf, cm>>

(* show_failures(pred_rf, y_test, X_test, trueclass, predictedclass) on *)
(* inputs of one length                                                 *)
EvalShowFailures ==
    /\ Len(y_test.data) = Len(pred_rf.data)
    /\ \E tc \in {Unset, Class(1), Class(5)}, pcl \in {Unset, Class(0)} :
          LET c == show_failures(pred_rf.data, y_test.data, X_test.data, tc, pcl)
          IN  /\ Called("failures",
                        [ok |-> TRUE, trueclass |-> tc, predictedclass |-> pcl,
                         selected |-> c.selected, rendered |-> c.rendered,
                         ret |-> c.ret])
              /\ pred_rf' = Array(pred_rf.dtype, c.predictions)
              /\ y_test' = Array(y_test.dtype, c.y_test)
              /\ X_test' = Array(X_test.dtype, c.X_test)
    /\ UNCHANGED cm

NextEval ==
    \/ EvalAccuracy \/ EvalConfusionMatrix \/ EvalReport \/ EvalShowFailures

SpecEval == InitEval /\ [][NextEval]_vars

-----------------------------------------------------------------------------
(* Properties *)

Total(m) == SumTo([r \in DOMAIN m |-> row_sum(m, r)], Cardinality(DOMAIN m) - 1)
Trace(m) == SumTo([r \in DOMAIN m |-> m[r][r]], Cardinality(DOMAIN m) - 1)

SameLength == Len(y_test.data) = Len(pred_rf.data)
Classes == 0..(NumLabels - 1)

(* 0-based indices of the current test set *)
Indices == 0..(Len(y_test.data) - 1)
TrueAt(i) == y_test.data[i + 1]
PredAt(i) == pred_rf.data[i + 1]
Misclassified == {i \in Indices : PredAt(i) # TrueAt(i)}

Selected(tc, pcl) ==
    ValuesOf(show_failures(pred_rf.data, y_test.data, X_test.data, tc, pcl).selected)

IsToy == y_test.data = ToyTrue /\ pred_rf.data = ToyPred

(* C1: on inputs of one length and for every choice of the two optional      *)
(* filters, the Failure Inspector selects exactly the indices i with         *)
(* prediction[i] # true[i], true[i] = trueClass when that filter is set and  *)
(* prediction[i] = predictedClass when that one is set; so without filters   *)
(* it selects the misclassified indices, with one filter a subset of them,   *)
(* with both the intersection of the two single-filter selections; on the    *)
(* toy labels with trueClass = 1 it selects index 2 only.                    *)
C1_InspectorSelection ==
    SameLength =>
      /\ pc = "Evaluate" =>
           /\ \A tc \in Filters, pcl \in Filters :
                 Selected(tc, pcl) =
                    {i \in Indices : /\ PredAt(i) # TrueAt(i)
                                     /\ (~tc.set \/ TrueAt(i) = tc.class)
                                     /\ (~pcl.set \/ PredAt(i) = pcl.class)}
           /\ \A tc \in Filters :
                 /\ Selected(tc, Unset) \subseteq Misclassified
                 /\ Selected(Unset, tc) \subseteq Misclassified
           /\ \A tc \in {Class(0), Class(1), Class(5)}, pcl \in {Class(0), Class(2)} :
                 Selected(tc, pcl) = Selected(tc, Unset) \cap Selected(Unset, pcl)
           /\ Selected(Unset, Unset) = Misclassified
           /\ Selected(Class(5), Unset) = {i \in Misclassified : TrueAt(i) = 5}
           /\ (IsToy => Selected(Class(1), Unset) = {2})
      /\ \A k \in 1..Len(out) :
            out[k].kind = "failures" /\ out[k].stage = "Evaluate" =>
               LET tc == out[k].result.trueclass
                   pcl == out[k].result.predictedclass
               IN  ValuesOf(out[k].result.selected) =
                      {i \in Indices : /\ PredAt(i) # TrueAt(i)
                                       /\ (~tc.set \/ TrueAt(i) = tc.class)
                                       /\ (~pcl.set \/ PredAt(i) = pcl.class)}

C1_Witness ==
    /\ pc = "evaluated" /\ IsToy
    /\ out[1].kind = "failures"
    /\ out[1].result.trueclass = Class(1)
    /\ out[1].result.predictedclass = Unset
    /\ out[1].result.selected = <<2>>

(* C3: for label sequences of one length N > 0 the accuracy computed from    *)
(* the predictions, count(true = pred) / N, equals trace / sum of the        *)
(* confusion matrix computed from the same two sequences.                    *)
C3_AccuracyIsTraceOverSum ==
    SameLength /\ Len(y_test.data) > 0
      /\ (pc = "Evaluate" \/ "accuracy" \in ValuesOf(ran)) =>
      LET a == accuracy_score(y_test.data, pred_rf.data)
          c == confusion_matrix(y_test.data, pred_rf.data, labels)
      IN  /\ a.ok /\ c.ok
          /\ a.value.den = Len(y_test.data)
          /\ a.value.num = Cardinality({i \in Indices : TrueAt(i) = PredAt(i)})
          /\ Total(c.value) > 0
          /\ a.value.num * Total(c.value) = Trace(c.value) * a.value.den
          /\ \A k \in 1..Len(out) :
                out[k].kind = "accuracy" =>
                   /\ out[k].result.ok
                   /\ out[k].result.value.num * Total(c.value)
                        = Trace(c.value) * out[k].result.value.den

C3_Witness ==
    /\ pc = "evaluated" /\ IsToy
    /\ out[1].kind = "accuracy"
    /\ out[1].result.value = [num |-> 3, den |-> 4]
    /\ Trace(confusion_matrix(y_test.data, pred_rf.data, labels).value) = 3

(* C4: for label sequences of one length and all classes t, p of the label   *)
(* set, confusion_matrix[t][p] is the number of indices with true label t    *)
(* and predicted label p (rows true, columns predicted); on the toy labels   *)
(* confusion_matrix[1][0] = 1 and the accuracy is 3/4.                       *)
C4_ConfusionMatrixCells ==
    SameLength /\ (pc = "Evaluate" \/ "confusion_matrix" \in ValuesOf(ran)) =>
      LET c == confusion_matrix(y_test.data, pred_rf.data, labels)
          m == IF pc = "Evaluate" THEN c.value ELSE cm
      IN  /\ c.ok
          /\ DOMAIN m = Classes
          /\ \A t \in Classes, p \in Classes :
                m[t][p] =
                   Cardinality({i \in Indices : TrueAt(i) = t /\ PredAt(i) = p})
          /\ (IsToy =>
                /\ m[1][0] = 1
                /\ accuracy_score(y_test.data, pred_rf.data).value.num * 4
                     = 3 * accuracy_score(y_test.data, pred_rf.data).value.den)

C4_Witness ==
    /\ pc = "evaluated" /\ IsToy
    /\ out[1].kind = "confusion_matrix"
    /\ cm[1][0] = 1 /\ cm[0][1] = 0 /\ cm[0][0] = 2 /\ cm[1][1] = 1

(* C8: given true and predicted label sequences of different lengths, each   *)
(* Evaluator operation (accuracy, confusion matrix, per-class report) fails  *)
(* with a length-mismatch error and produces no value; on equal lengths it   *)
(* succeeds.                                                                 *)
C8_LengthMismatch ==
    /\ pc = "Evaluate" =>
         LET a == accuracy_score(y_test.data, pred_rf.data)
             c == confusion_matrix(y_test.data, pred_rf.data, labels)
             r == classification_report(y_test.data, pred_rf.data, labels)
         IN  /\ SameLength => a.ok /\ c.ok /\ r.ok
             /\ ~SameLength =>
                  /\ ~a.ok /\ a.error = "LengthMismatch" /\ a.value = << >>
                  /\ ~c.ok /\ c.error = "LengthMismatch" /\ c.value = << >>
                  /\ ~r.ok /\ r.error = "LengthMismatch" /\ r.value = << >>
    /\ pc = "evaluated" =>
         /\ SameLength => out[1].result.ok /\ failedAt = "none"
         /\ ~SameLength =>
              /\ ~out[1].result.ok
              /\ out[1].result.error = "LengthMismatch"
              /\ out[1].result.value = << >>
              /\ failedAt = out[1].kind
              /\ cm = << >>

C8_Witness ==
    /\ pc = "evaluated"
    /\ Len(y_test.data) = 2 /\ Len(pred_rf.data) = 3
    /\ out[1].kind = "confusion_matrix"
    /\ out[1].result.error = "LengthMismatch"
    /\ cm = << >>

-----------------------------------------------------------------------------
(* Properties of a run of the notebook *)

Ran(s) == s \in ValuesOf(ran)

(* a ran before b *)
Before(a, b) ==
    \E i \in 1..Len(ran), j \in 1..Len(ran) : i < j /\ ran[i] = a /\ ran[j] = b

(* the outputs of one kind *)
OutputsOf(kind) == {out[k] : k \in {j \in 1..Len(out) : out[j].kind = kind}}

InspectorStages ==
    {"ShowFailuresAll", "ShowFailuresTrue5", "ShowFailuresPred0",
     "ShowFailuresTrue0Pred2"}

(* C2: the entries of the confusion matrix the Evaluator computes over the   *)
(* label list range(10) sum to len(y_test), the number of test samples.      *)
C2_ConfusionMatrixTotal ==
    Ran("ConfusionMatrix") =>
       /\ Total(cm) = Len(y_test.data)
       /\ \A o \in OutputsOf("confusion_matrix") :
             o.result.ok /\ Total(o.result.value) = Len(o.y_true)

C2_Witness ==
    /\ Ran("ConfusionMatrix")
    /\ Len(y_test.data) = 2
    /\ Total(cm) = 2
    /\ cm[0][5] = 1 /\ cm[5][5] = 1

(* C5: label normalization is idempotent: normalizing an already normalized  *)
(* label sequence (as the Tabular Adapter does with y_train) yields the same *)
(* sequence: same values, same length, same order.                           *)
C5_NormalizeIdempotent ==
    /\ Ran("NormalizeTrain") =>
          /\ astype_int32(y_train) = y_train
          /\ \A i \in 1..Len(y_train.data) : y_train.data[i] \in Classes
    /\ Ran("NormalizeTest") => astype_int32(y_test) = y_test
    /\ Ran("TabularAdapter") =>
          /\ cu_y_train = y_train
          /\ Len(cu_y_train.data) = Len(X_train.data)

C5_Witness ==
    /\ Ran("TabularAdapter")
    /\ cu_y_train.dtype = "int32"
    /\ cu_y_train.data = <<5>>
    /\ y_train.data = <<5>>
    /\ y_test.data = <<0, 2>>

(* the stages whose results a stage consumes *)
Producers(s) ==
    CASE s = "NormalizeTrain" -> {"Load"}
      [] s = "NormalizeTest" -> {"Load"}
      [] s = "TabularAdapter" -> {"NormalizeTrain"}
      [] s = "ForestFit" -> {"TabularAdapter"}
      [] s = "ForestPredict" -> {"ForestFit", "NormalizeTest"}
      [] s \in InspectorStages -> {"ForestPredict"}
      [] s = "ConfusionMatrix" -> {"ForestPredict"}
      [] s = "ClassificationReport" -> {"ForestPredict", "ConfusionMatrix"}
      [] s = "BuildDMatrix" -> {"NormalizeTrain", "NormalizeTest"}
      [] s = "BoostedTrain" -> {"BuildDMatrix", "SetParams"}
      [] s = "BoostedPredict" -> {"BoostedTrain"}
      [] OTHER -> {}

(* C6: control flow is linear: the stages run in the fixed order of the      *)
(* notebook, each at most once and, in a run that reaches its end, exactly   *)
(* once; no stage starts before the stages producing its inputs completed,   *)
(* and an evaluation output exists only once its prediction vector does.     *)
C6_LinearOrder ==
    /\ Len(ran) <= Len(Order)
    /\ \A i \in 1..Len(ran) : ran[i] = Order[i]
    /\ pc \in Stages => Len(ran) < Len(Order) /\ pc = Order[Len(ran) + 1]
    /\ pc = "done" => ran = Order
    /\ pc \in Stages \cup {"done", "aborted"}
    /\ \A i \in 1..Len(ran) : \A a \in Producers(ran[i]) : Before(a, ran[i])
    /\ pc \in Stages =>
          /\ \A a \in Producers(pc) : Ran(a)
          /\ Needs(pc) \subseteq defined
    /\ \A k \in 1..Len(out) :
          /\ Ran(out[k].stage)
          /\ out[k].stage \in {"ForestPredict", "ConfusionMatrix",
                               "ClassificationReport"} \cup InspectorStages
                => "pred_rf" \in defined /\ out[k].y_pred = pred_rf.data
          /\ out[k].stage = "BoostedPredict"
                => "pred_xgb" \in defined /\ out[k].y_pred = pred_xgb.data

C6_Witness ==
    /\ pc = "done"
    /\ ran = Order
    /\ failedAt = "none"
    /\ Cardinality(OutputsOf("accuracy")) = 2

(* a step of the run: taken from a state without error; a failing step     *)
(* aborts and completes, binds and prints nothing; any other step completes *)
(* the current stage, whose outputs are the only ones added                 *)
FatalStep ==
    /\ failedAt = "none"
    /\ failedAt' # "none" =>
          /\ failedAt' = pc
          /\ pc' = "aborted"
          /\ ran' = ran /\ out' = out /\ defined' = defined
    /\ failedAt' = "none" =>
          /\ ran' = Append(ran, pc)
          /\ \A k \in (Len(out) + 1)..Len(out') : out'[k].stage = pc

InspectorStep ==
    pc \in InspectorStages =>
       /\ pred_rf' = pred_rf /\ y_test' = y_test /\ X_test' = X_test
       /\ \A k \in (Len(out) + 1)..Len(out') :
             out'[k].kind = "failures" /\ out'[k].result.ret = None

(* every later output of the forest section is computed from the labels and *)
(* predictions the accuracy was computed from                               *)
SameArguments ==
    \A a \in OutputsOf("accuracy") :
       a.stage = "ForestPredict" =>
          \A o \in OutputsOf("confusion_matrix") \cup OutputsOf("per_class")
                   \cup OutputsOf("report") \cup OutputsOf("failures") :
             o.y_true = a.y_true /\ o.y_pred = a.y_pred

(* C9: the Failure Inspector is read-only: a show_failures call, whatever    *)
(* its filters, leaves the prediction vector, the true labels and the test   *)
(* features unchanged and returns no value, so the confusion matrix and the  *)
(* report are computed from the pred_rf and y_test the accuracy was computed *)
(* from.                                                                     *)
C9_InspectorReadOnly == [][InspectorStep]_vars /\ []SameArguments

C9_Witness ==
    /\ Ran("ClassificationReport")
    /\ Cardinality(OutputsOf("failures")) = 4
    /\ \E o \in OutputsOf("failures") :
          o.stage = "ShowFailuresTrue5" /\ o.result.selected = <<1>>
    /\ \E o \in OutputsOf("report") : o.y_true = y_test.data /\ o.y_pred = pred_rf.data

(* C10: the accuracy printed for class i is confusion_matrix[i][i] divided   *)
(* by the sum of row i, the fraction of the test samples of true label i     *)
(* predicted as i; it is a value in [0,1] exactly when some test sample has  *)
(* true label i (nan otherwise); 10 values are printed, one per class, in    *)
(* increasing class order.                                                   *)
C10_PerClassAccuracy ==
    \A o \in OutputsOf("per_class") :
       /\ Len(o.result) = NumLabels
       /\ \A k \in 1..Len(o.result) :
             LET i == k - 1
                 v == o.result[k].value
                 ofClass == {n \in Indices : TrueAt(n) = i}
             IN  /\ o.result[k].class = i
                 /\ v.num = cm[i][i]
                 /\ v.den = row_sum(cm, i)
                 /\ v.den = Cardinality(ofClass)
                 /\ v.num = Cardinality({n \in ofClass : PredAt(n) = i})
                 /\ v.nan <=> ofClass = {}
                 /\ ~v.nan => 0 <= v.num /\ v.num <= v.den /\ v.den > 0

C10_Witness ==
    /\ Ran("ConfusionMatrix")
    /\ \E o \in OutputsOf("per_class") :
          /\ o.result[6].value = [num |-> 1, den |-> 1, nan |-> FALSE]
          /\ o.result[3].value = [num |-> 0, den |-> 1, nan |-> FALSE]
          /\ o.result[1].value.nan
          /\ o.result[10].class = 9

=============================================================================
